---------------------------- MODULE Spec2Model ----------------------------
(***************************************************************************)
(* Coupon campaign optimisation notebook (notebooks/simple_opt.ipynb).     *)
(*                                                                         *)
(* The notebook is a pipeline of cells.  Each cell is one action; pc names *)
(* the next cell to run.  Numbers are kept exact:                          *)
(*   - probabilities are held in hundredths (0.06 is 6);                   *)
(*   - CLTV and coupon values are integers (the table stores 98.0);        *)
(*   - ROI values are therefore in hundredths (124.88 is 12488);           *)
(*   - the budget b = sum(cltv)/10 is the rational [num, den].             *)
(* Users are indexed 0..n-1 as in the DataFrame; row i of the table is     *)
(* rows[i+1].                                                              *)
(***************************************************************************)
EXTENDS Integers, Sequences, FiniteSets, TLC

VARIABLES
  pc,               \* next cell to run, "done" or "error"
  error,            \* the exception that stopped the run, "" if none
  call,             \* the create_customers(n, c) call of cell 2, if made
  csv,              \* content of ../data/synthetic_users.csv.gz
  df,               \* the DataFrame read from the csv file
  coupons,          \* candidate coupon values parsed from the column names
  coupon_bau,       \* column df['coupon_bau']
  prob_coupon_bau,  \* column df['prob_coupon_bau']
  roi_bau,          \* column df['roi_bau']
  ROI_BAU,
  set_users,
  coupons_per_user,
  a, c, d, b,       \* input matrices and budget
  constraints,
  opt_model,        \* the LpProblem: constraints, objective, sense, status
  x,                \* varValue of every decision variable after solve()
  coupon_opt,       \* column df['coupon_opt'] (NaN where never assigned)
  prob_coupon_opt,
  roi_opt,
  ROI_OPT,
  ratio             \* (ROI_OPT - ROI_BAU) / ROI_BAU, as the fraction [num, den]

vars == <<pc, error, call, csv, df, coupons, coupon_bau, prob_coupon_bau, roi_bau, ROI_BAU,
          set_users, coupons_per_user, a, c, d, b, constraints, opt_model, x,
          coupon_opt, prob_coupon_opt, roi_opt, ROI_OPT, ratio>>

---------------------------------------------------------------------------
(* Bounds of the model *)

\* largest n passed to create_customers
MaxN == 3

\* CLTV values the random draw is followed for, besides the smallest and the
\* largest value of the population (35 and 45 are the .5 ties of 10% rounding)
CltvPicks == {35, 45}

\* coupon arrays c passed to create_customers
CouponLists == {<<5, 4>>, <<3, 4, 12>>}

---------------------------------------------------------------------------
(* Generic helpers *)

Min(S) == CHOOSE v \in S : \A w \in S : v <= w
Max(S) == CHOOSE v \in S : \A w \in S : w <= v

RECURSIVE SeqSum(_)
SeqSum(s) == IF s = <<>> THEN 0 ELSE Head(s) + SeqSum(Tail(s))

RECURSIVE SetSum(_, _)
\* sum of f[e] over e \in S
SetSum(S, f) ==
  IF S = {} THEN 0
  ELSE LET e == CHOOSE e \in S : TRUE IN f[e] + SetSum(S \ {e}, f)

Range(s) == {s[k] : k \in 1..Len(s)}

\* a cell that may hold NaN: <<>> is NaN, <<v>> is the number v
NaN == <<>>
Num(v) == <<v>>
IsNaN(cell) == cell = <<>>
int(cell) == cell[1]

---------------------------------------------------------------------------
(* Cell 2: create_customers *)

\* A name is kept as its '_'-separated tokens: the words, then the numbers.
\* 'prob_coupon_{}'.format(v)
ProbCol(v) == [words |-> <<"prob", "coupon">>, nums |-> <<v>>]
CltvCol == [words |-> <<"cltv">>, nums |-> <<>>]

\* faulty variant: np.arange(0, n, 1)/100, a multiplier of 0 becomes possible
multsFromZero(n) == 0..(n - 1)

\* np.arange(1, n, 1)/100, in hundredths
mults(n) == 1..(n - 1)

\* faulty variant: np.arange(30, 121, 1), the end value is included
cltvsInclusive == 30..120

\* np.arange(30, 120, 1)
cltvs == 30..119

\* random.choices(population, k=k): every list of k draws; an empty
\* population raises IndexError as soon as one draw is made
choices(population, k) == [1..k -> population]
choicesRaises(population, k) == population = {} /\ k > 0

\* the draws the model follows: the ends of the population and the picks
Drawn(population) ==
  {v \in population :
     v = Min(population) \/ v = Max(population) \/ v \in CltvPicks}

cols_prob_coupon(cs) == [k \in 1..Len(cs) |-> ProbCol(cs[k])]

\* the loop body: probs = [j*randommults[i] for j in 1..len(c)] + [cltv]
probs(cs, mult, cltv) == Append([j \in 1..Len(cs) |-> j * mult], cltv)

\* the table create_customers(n, c) returns for the given random draws
create_customers(n, cs, randommults, randomcltvs) ==
  [columns |-> Append(cols_prob_coupon(cs), CltvCol),
   rows    |-> [i \in 1..n |-> probs(cs, randommults[i], randomcltvs[i])]]

\* the data file shipped with the repository, as printed by cell 3
ShippedCoupons == <<4, 5, 6, 7, 8, 9, 10, 11>>
ShippedRows ==
  << <<6, 12, 18, 24, 30, 36, 42, 48,  98>>,
     <<6, 12, 18, 24, 30, 36, 42, 48,  82>>,
     <<3,  6,  9, 12, 15, 18, 21, 24, 112>>,
     <<1,  2,  3,  4,  5,  6,  7,  8,  91>>,
     <<6, 12, 18, 24, 30, 36, 42, 48,  80>>,
     <<1,  2,  3,  4,  5,  6,  7,  8,  87>>,
     <<4,  8, 12, 16, 20, 24, 28, 32,  35>>,
     <<6, 12, 18, 24, 30, 36, 42, 48,  40>>,
     <<4,  8, 12, 16, 20, 24, 28, 32,  46>>,
     <<1,  2,  3,  4,  5,  6,  7,  8,  80>> >>
ShippedCsv ==
  [columns |-> Append(cols_prob_coupon(ShippedCoupons), CltvCol),
   rows    |-> ShippedRows]

EmptyDf == [columns |-> <<>>, rows |-> <<>>]

---------------------------------------------------------------------------
(* DataFrame access *)

NRows(t) == Len(t.rows)
HasCol(t, name) == \E k \in 1..Len(t.columns) : t.columns[k] = name
ColIndex(t, name) == CHOOSE k \in 1..Len(t.columns) : t.columns[k] = name
\* t.loc[i][name], i is the 0-based index label
Cell(t, i, name) == t.rows[i + 1][ColIndex(t, name)]


---------------------------------------------------------------------------
(* Cell 4: BAU approach *)

\* int(col.split('_')[-1]) for the columns without 'cltv' in their name
IsProbCol(col) == \A k \in 1..Len(col.words) : col.words[k] # "cltv"
ParseCoupons(columns) ==
  LET kept == SelectSeq(columns, IsProbCol)
  IN  [k \in 1..Len(kept) |-> kept[k].nums[Len(kept[k].nums)]]

\* df['cltv']*0.1.  The double nearest to 0.1 is (2^56 + 4)/(10 * 2^56), so
\* the exact product is v/10 + v/(10 * 2^54): it rounds to the double v/10
\* when v/10 is a double (v a multiple of 5, the only way to a .5 tie), and
\* otherwise stays within 1e-15 of v/10, far from any .5.  The product is
\* therefore kept as the rational v/10.
TimesTenth(v) == [num |-> v, den |-> 10]

\* faulty variant: ties rounded up instead of to the even integer
roundHalfUp(q) ==
  IF 2 * (q.num % q.den) < q.den THEN q.num \div q.den
  ELSE (q.num \div q.den) + 1

\* round(): numpy rounds half to even
round(q) ==
  LET f  == q.num \div q.den
      r2 == 2 * (q.num % q.den)
  IN  IF r2 < q.den THEN f
      ELSE IF r2 > q.den THEN f + 1
      ELSE IF f % 2 = 0 THEN f ELSE f + 1

\* coupons_bau = np.array(round(df['cltv']*0.1)).astype(int)
coupons_bau(t) ==
  [i \in 1..NRows(t) |-> round(TimesTenth(Cell(t, i - 1, CltvCol)))]

\* faulty variant: the coupon is subtracted after the multiplication
RoiColumnNet(t, prob, coupon) ==
  [i \in 1..NRows(t) |-> prob[i] * Cell(t, i - 1, CltvCol) - coupon[i]]

\* row-wise prob*(cltv - coupon)
RoiColumn(t, prob, coupon) ==
  [i \in 1..NRows(t) |-> prob[i] * (Cell(t, i - 1, CltvCol) - coupon[i])]

\* the lambda of df.apply raises KeyError when the column does not exist;
\* on an empty frame apply returns a frame, and assigning it to one column
\* raises ValueError
BauRaises(t, cb) ==
  \/ NRows(t) = 0
  \/ \E i \in 1..NRows(t) : ~HasCol(t, ProbCol(cb[i]))

BauCell ==
  /\ pc = "cell4"
  /\ coupons' = ParseCoupons(df.columns)
  /\ LET cb == coupons_bau(df) IN
     /\ coupon_bau' = cb
     /\ IF BauRaises(df, cb)
        THEN /\ pc' = "error"
             /\ error' = IF NRows(df) = 0 THEN "ValueError" ELSE "KeyError"
             /\ UNCHANGED <<prob_coupon_bau, roi_bau>>
        ELSE LET pb == [i \in 1..NRows(df) |-> Cell(df, i - 1, ProbCol(cb[i]))]
             IN  /\ prob_coupon_bau' = pb
                 /\ roi_bau' = RoiColumn(df, pb, cb)
                 /\ pc' = "cell5"
                 /\ error' = ""
  /\ UNCHANGED <<call, csv, df, ROI_BAU, set_users, coupons_per_user, a, c, d, b,
                 constraints, opt_model, x, coupon_opt, prob_coupon_opt,
                 roi_opt, ROI_OPT, ratio>>

(* Cell 5: ROI_BAU = df['roi_bau'].sum() *)
RoiBauCell ==
  /\ pc = "cell5"
  /\ ROI_BAU' = SeqSum(roi_bau)
  /\ pc' = "cell6"
  /\ UNCHANGED <<error, call, csv, df, coupons, coupon_bau, prob_coupon_bau, roi_bau,
                 set_users, coupons_per_user, a, c, d, b, constraints,
                 opt_model, x, coupon_opt, prob_coupon_opt, roi_opt, ROI_OPT,
                 ratio>>

---------------------------------------------------------------------------
(* Cell 6: potential coupons per user *)

UsersCell ==
  /\ pc = "cell6"
  /\ LET su == [k \in 1..NRows(df) |-> k - 1] IN
     /\ set_users' = su
     /\ coupons_per_user' = [i \in Range(su) |-> coupons]
  /\ pc' = "cell7"
  /\ UNCHANGED <<error, call, csv, df, coupons, coupon_bau, prob_coupon_bau, roi_bau,
                 ROI_BAU, a, c, d, b, constraints, opt_model, x, coupon_opt,
                 prob_coupon_opt, roi_opt, ROI_OPT, ratio>>

---------------------------------------------------------------------------
(* Cell 7: input matrices *)

\* the keys (i, j) filled by the two loops
Keys(cpu) == UNION {{<<i, cpu[i][k]>> : k \in 1..Len(cpu[i])} : i \in DOMAIN cpu}

\* plp.LpVariable(cat=LpInteger, lowBound=0, upBound=1, name="x_{i}_{j}")
LpVariable(i, j) ==
  [name |-> [words |-> <<"x">>, nums |-> <<i, j>>], cat |-> "Integer", lowBound |-> 0, upBound |-> 1]

\* a[(i, j)] = j
CouponMatrix(K) == [k \in K |-> k[2]]
\* c[(i, j)] = df.loc[i]['prob_coupon_{}'.format(j)]
ProbMatrix(t, K) == [k \in K |-> Cell(t, k[1], ProbCol(k[2]))]
\* d[(i, j)] = df.loc[i]['cltv'] - j
ReturnMatrix(t, K) == [k \in K |-> Cell(t, k[1], CltvCol) - k[2]]

\* df['cltv'].sum()
CltvSum(t) == SeqSum([i \in 1..NRows(t) |-> Cell(t, i - 1, CltvCol)])
\* faulty variant: the division by 10 is missing
BudgetUndivided(t) == [num |-> CltvSum(t), den |-> 1]

\* b = (df['cltv'].sum())/10
Budget(t) == [num |-> CltvSum(t), den |-> 10]

MatricesCell ==
  /\ pc = "cell7"
  /\ LET K == Keys(coupons_per_user) IN
     /\ x' = [k \in K |-> LpVariable(k[1], k[2])]
     /\ a' = CouponMatrix(K)
     /\ c' = ProbMatrix(df, K)
     /\ d' = ReturnMatrix(df, K)
  /\ b' = Budget(df)
  /\ pc' = "cell8"
  /\ UNCHANGED <<error, call, csv, df, coupons, coupon_bau, prob_coupon_bau, roi_bau,
                 ROI_BAU, set_users, coupons_per_user, constraints, opt_model,
                 coupon_opt, prob_coupon_opt, roi_opt, ROI_OPT, ratio>>

---------------------------------------------------------------------------
(* Cell 8: constraints *)

\* a linear expression is the function from its variables' keys to their
\* coefficients; lpSum(x[i, j] for j in coupons_per_user[i])
RowExpr(i, cpu) == [k \in {<<i, cpu[i][p]>> : p \in 1..Len(cpu[i])} |-> 1]

\* faulty variant: LpConstraintLE, at most one coupon per user
UserConstraintAtMost(i, cpu) ==
  [e     |-> RowExpr(i, cpu),
   sense |-> "LE",
   rhs   |-> [num |-> IF Len(cpu[i]) > 0 THEN 1 ELSE 0, den |-> 1]]

\* "Only one coupon per user": sum(x[i, :]) = 1*(len(coupons_per_user[i]) > 0)
UserConstraint(i, cpu) ==
  [e     |-> RowExpr(i, cpu),
   sense |-> "EQ",
   rhs   |-> [num |-> IF Len(cpu[i]) > 0 THEN 1 ELSE 0, den |-> 1]]

\* faulty variant: the coupon value a[i, j] is left out of the sum
BudgetConstraintUnweighted(am, bud) ==
  [e |-> [k \in DOMAIN am |-> 1], sense |-> "LE", rhs |-> bud]

\* constraint_b: lpSum(a[i, j] * x[i, j]) <= b
BudgetConstraint(am, bud) == [e |-> am, sense |-> "LE", rhs |-> bud]

ConstraintsCell ==
  /\ pc = "cell8"
  /\ constraints' =
       [k \in Range(set_users) \cup {-1} |->
          IF k = -1 THEN BudgetConstraint(a, b)
          ELSE UserConstraint(k, coupons_per_user)]
  /\ pc' = "cell9"
  /\ UNCHANGED <<error, call, csv, df, coupons, coupon_bau, prob_coupon_bau, roi_bau,
                 ROI_BAU, set_users, coupons_per_user, a, c, d, b, opt_model,
                 x, coupon_opt, prob_coupon_opt, roi_opt, ROI_OPT, ratio>>

---------------------------------------------------------------------------
(* Cell 9: objective function and problem *)

\* lpSum(x[i, j] * c[i, j] * d[i, j])
Objective(cm, dm) == [k \in DOMAIN cm |-> cm[k] * dm[k]]

\* faulty variant: the sense is left at LpProblem's default
ModelSenseDefault == "Minimize"

\* opt_model.sense = plp.LpMaximize
ModelSense == "Maximize"

ModelCell ==
  /\ pc = "cell9"
  /\ opt_model' = [constraints |-> constraints,
                   objective   |-> Objective(c, d),
                   sense       |-> ModelSense,
                   status      |-> "Not Solved"]
  /\ pc' = "cell10"
  /\ UNCHANGED <<error, call, csv, df, coupons, coupon_bau, prob_coupon_bau, roi_bau,
                 ROI_BAU, set_users, coupons_per_user, a, c, d, b, constraints,
                 x, coupon_opt, prob_coupon_opt, roi_opt, ROI_OPT, ratio>>

---------------------------------------------------------------------------
(* Cell 10: opt_model.solve() and the coupon_opt column *)

\* The solver is the external MILP solver behind PuLP, taken by its
\* contract: on a feasible problem it returns status Optimal and one of the
\* feasible 0/1 points with the best objective; on an infeasible one it
\* returns status Infeasible and leaves arbitrary values in the variables.
\* A 0/1 point is the set S of variable keys whose value is 1.

\* value of a linear expression at S
Value(e, S) == SetSum(S \cap DOMAIN e, e)

Holds(con, S) ==
  LET l == Value(con.e, S) * con.rhs.den
      r == con.rhs.num
  IN  CASE con.sense = "EQ" -> l = r
        [] con.sense = "LE" -> l <= r
        [] con.sense = "GE" -> l >= r

ModelVars(m) ==
  DOMAIN m.objective \cup UNION {DOMAIN m.constraints[k].e : k \in DOMAIN m.constraints}

RECURSIVE SortedSeq(_)
SortedSeq(S) == IF S = {} THEN <<>> ELSE <<Min(S)>> \o SortedSeq(S \ {Min(S)})

\* objective to maximise
Signed(m, v) == IF m.sense = "Maximize" THEN v ELSE -v

\* the ways to set the variables of constraint i alone, with what each takes
\* from the budget row (key -1) and adds to the objective
RowOptions(m, i) ==
  {[ones |-> T,
    cost |-> Value(m.constraints[-1].e, T),
    gain |-> Signed(m, Value(m.objective, T))] :
     T \in {T \in SUBSET DOMAIN m.constraints[i].e : Holds(m.constraints[i], T)}}

\* largest integer left-hand side the budget row admits
Capacity(m) == m.constraints[-1].rhs.num \div m.constraints[-1].rhs.den

\* best objective of the rows seen so far, per budget left
NextTable(prev, opts, cap) ==
  [bud \in 0..cap |->
     LET cand == {o \in opts : o.cost <= bud /\ prev[bud - o.cost].ok}
     IN  IF cand = {} THEN [ok |-> FALSE, val |-> 0]
         ELSE [ok |-> TRUE,
               val |-> Max({prev[bud - o.cost].val + o.gain : o \in cand})]]

RECURSIVE Tables(_, _, _, _)
Tables(m, rows, k, cap) ==
  IF k = 0 THEN <<[bud \in 0..cap |-> [ok |-> TRUE, val |-> 0]]>>
  ELSE LET p == Tables(m, rows, k - 1, cap)
           t == NextTable(p[k], RowOptions(m, rows[k]), cap)
       IN  \* the comparisons make TLC enumerate each table once, in order
           IF p # <<>> /\ t # <<>> THEN Append(p, t) ELSE p

RECURSIVE BestPoints(_, _, _, _, _)
\* the points over rows 1..k that reach tabs[k+1][bud]
BestPoints(m, rows, tabs, k, bud) ==
  IF k = 0 THEN {{}}
  ELSE UNION {{P \cup o.ones : P \in BestPoints(m, rows, tabs, k - 1, bud - o.cost)} :
              o \in {o \in RowOptions(m, rows[k]) :
                       /\ o.cost <= bud
                       /\ tabs[k][bud - o.cost].ok
                       /\ tabs[k][bud - o.cost].val + o.gain = tabs[k + 1][bud].val}}

\* what solve() may return: the status and the set of variables left at 1
SolverOutcomes(m) ==
  LET rows == SortedSeq(DOMAIN m.constraints \ {-1})
      R    == Len(rows)
      cap  == Capacity(m)
      tabs == Tables(m, rows, R, cap)
  IN  IF cap >= 0 /\ tabs[R + 1][cap].ok
      THEN {[status |-> "Optimal", ones |-> P] :
              P \in BestPoints(m, rows, tabs, R, cap)}
      ELSE {[status |-> "Infeasible", ones |-> P] : P \in SUBSET ModelVars(m)}

\* the characters of a variable name "x_<i>_<j>", as character codes
RECURSIVE Digits(_)
Digits(v) == IF v < 10 THEN <<48 + v>> ELSE Digits(v \div 10) \o <<48 + (v % 10)>>
NameChars(name) ==
  <<120, 95>> \o Digits(name.nums[1]) \o <<95>> \o Digits(name.nums[2])

RECURSIVE StrLess(_, _)
\* Python's order of two strings
StrLess(s, t) ==
  IF t = <<>> THEN FALSE
  ELSE IF s = <<>> THEN TRUE
  ELSE IF Head(s) # Head(t) THEN Head(s) < Head(t)
  ELSE StrLess(Tail(s), Tail(t))

\* df['coupon_opt'] = np.NaN, then the loop over opt_model.variables(),
\* which PuLP sorts by name: every variable at 1 writes its coupon j into
\* row i, so a row keeps the coupon of its last variable at 1 in name order
\* and stays NaN when it has none
CouponOptColumn(t, xs) ==
  [r \in 1..NRows(t) |->
     LET ones == {k \in DOMAIN xs :
                    xs[k].name.nums[1] = r - 1 /\ xs[k].varValue = 1}
     IN  IF ones = {} THEN NaN
         ELSE LET last == CHOOSE k \in ones : \A o \in ones \ {k} :
                            StrLess(NameChars(xs[o].name), NameChars(xs[k].name))
              IN  Num(xs[last].name.nums[2])]

SolveCell ==
  /\ pc = "cell10"
  /\ \E out \in SolverOutcomes(opt_model) :
       LET xs == [k \in DOMAIN x |->
                    [name     |-> x[k].name,
                     cat      |-> x[k].cat,
                     lowBound |-> x[k].lowBound,
                     upBound  |-> x[k].upBound,
                     varValue |-> IF k \in out.ones THEN 1 ELSE 0]]
       IN  /\ opt_model' = [opt_model EXCEPT !.status = out.status]
           /\ x' = xs
           /\ coupon_opt' = CouponOptColumn(df, xs)
  /\ pc' = "cell11"
  /\ UNCHANGED <<error, call, csv, df, coupons, coupon_bau, prob_coupon_bau, roi_bau,
                 ROI_BAU, set_users, coupons_per_user, a, c, d, b, constraints,
                 prob_coupon_opt, roi_opt, ROI_OPT, ratio>>

---------------------------------------------------------------------------
(* Cells 11-13: optimisation columns, ROI_OPT and the comparison *)

\* int(x['coupon_opt']) raises ValueError on NaN
OptRaises(col) == \E i \in 1..Len(col) : IsNaN(col[i])

OptColumnsCell ==
  /\ pc = "cell11"
  /\ IF OptRaises(coupon_opt)
     THEN /\ pc' = "error"
          /\ error' = "ValueError"
          /\ UNCHANGED <<prob_coupon_opt, roi_opt>>
     ELSE LET co == [i \in 1..NRows(df) |-> int(coupon_opt[i])]
              po == [i \in 1..NRows(df) |-> Cell(df, i - 1, ProbCol(co[i]))]
          IN  /\ prob_coupon_opt' = po
              /\ roi_opt' = RoiColumn(df, po, co)
              /\ pc' = "cell12"
              /\ error' = ""
  /\ UNCHANGED <<call, csv, df, coupons, coupon_bau, prob_coupon_bau, roi_bau,
                 ROI_BAU, set_users, coupons_per_user, a, c, d, b, constraints,
                 opt_model, x, coupon_opt, ROI_OPT, ratio>>

RoiOptCell ==
  /\ pc = "cell12"
  /\ ROI_OPT' = SeqSum(roi_opt)
  /\ pc' = "cell13"
  /\ UNCHANGED <<error, call, csv, df, coupons, coupon_bau, prob_coupon_bau, roi_bau,
                 ROI_BAU, set_users, coupons_per_user, a, c, d, b, constraints,
                 opt_model, x, coupon_opt, prob_coupon_opt, roi_opt, ratio>>

\* (ROI_OPT - ROI_BAU) / (ROI_BAU), kept as a fraction
Ratio(opt, bau) == [num |-> opt - bau, den |-> bau]

CompareCell ==
  /\ pc = "cell13"
  /\ ratio' = Ratio(ROI_OPT, ROI_BAU)
  /\ pc' = "done"
  /\ UNCHANGED <<error, call, csv, df, coupons, coupon_bau, prob_coupon_bau, roi_bau,
                 ROI_BAU, set_users, coupons_per_user, a, c, d, b, constraints,
                 opt_model, x, coupon_opt, prob_coupon_opt, roi_opt, ROI_OPT>>

---------------------------------------------------------------------------
(* Cells 2-3: the data file *)

\* cell 2 as shipped: the three generating lines are commented out
DefineCell ==
  /\ pc = "cell2"
  /\ pc' = "cell3"
  /\ UNCHANGED <<error, call, csv, df, coupons, coupon_bau, prob_coupon_bau, roi_bau,
                 ROI_BAU, set_users, coupons_per_user, a, c, d, b, constraints,
                 opt_model, x, coupon_opt, prob_coupon_opt, roi_opt, ROI_OPT,
                 ratio>>

\* cell 2 with the generating lines uncommented:
\* df = create_customers(n, coupons); df.to_csv(...)
GenerateCell ==
  /\ pc = "cell2"
  /\ \E n \in 0..MaxN, cs \in CouponLists :
       /\ call' = [made |-> TRUE, n |-> n, c |-> cs]
       /\ coupons' = cs
       /\ IF choicesRaises(mults(n), n)
          THEN /\ pc' = "error"
               /\ error' = "IndexError"
               /\ UNCHANGED <<csv, df>>
          ELSE \E randommults \in choices(Drawn(mults(n)), n),
                  randomcltvs \in choices(Drawn(cltvs), n) :
                 /\ df' = create_customers(n, cs, randommults, randomcltvs)
                 /\ csv' = df'
                 /\ pc' = "cell3"
                 /\ error' = ""
  /\ UNCHANGED <<coupon_bau, prob_coupon_bau, roi_bau,
                 ROI_BAU, set_users, coupons_per_user, a, c, d, b, constraints,
                 opt_model, x, coupon_opt, prob_coupon_opt, roi_opt, ROI_OPT,
                 ratio>>

\* cell 3: df = pd.read_csv(...); the file holds the column names and the
\* numbers as written, so reading gives the table back
ReadCsvCell ==
  /\ pc = "cell3"
  /\ df' = csv
  /\ pc' = "cell4"
  /\ UNCHANGED <<error, call, csv, coupons, coupon_bau, prob_coupon_bau, roi_bau,
                 ROI_BAU, set_users, coupons_per_user, a, c, d, b, constraints,
                 opt_model, x, coupon_opt, prob_coupon_opt, roi_opt, ROI_OPT,
                 ratio>>

---------------------------------------------------------------------------
(* The notebook run top to bottom *)

Init ==
  /\ pc = "cell2"
  /\ error = ""
  /\ call = [made |-> FALSE, n |-> 0, c |-> <<>>]
  /\ csv = ShippedCsv
  /\ df = EmptyDf
  /\ coupons = <<>>
  /\ coupon_bau = <<>>
  /\ prob_coupon_bau = <<>>
  /\ roi_bau = <<>>
  /\ ROI_BAU = 0
  /\ set_users = <<>>
  /\ coupons_per_user = <<>>
  /\ a = <<>>
  /\ c = <<>>
  /\ d = <<>>
  /\ b = [num |-> 0, den |-> 10]
  /\ constraints = <<>>
  /\ opt_model = [constraints |-> <<>>, objective |-> <<>>,
                  sense |-> "Minimize", status |-> "Not Solved"]
  /\ x = <<>>
  /\ coupon_opt = <<>>
  /\ prob_coupon_opt = <<>>
  /\ roi_opt = <<>>
  /\ ROI_OPT = 0
  /\ ratio = [num |-> 0, den |-> 1]

Next ==
  \/ DefineCell
  \/ GenerateCell
  \/ ReadCsvCell
  \/ BauCell
  \/ RoiBauCell
  \/ UsersCell
  \/ MatricesCell
  \/ ConstraintsCell
  \/ ModelCell
  \/ SolveCell
  \/ OptColumnsCell
  \/ RoiOptCell
  \/ CompareCell

Spec == Init /\ [][Next]_vars

---------------------------------------------------------------------------
(* Properties *)

Solved == opt_model.status = "Optimal"
Users == Range(set_users)
Cltv(i) == Cell(df, i, CltvCol)
\* the candidate coupons of user i whose decision variable is 1
Chosen(i) ==
  {j \in Range(coupons_per_user[i]) : x[<<i, j>>].varValue = 1}
\* the coupon the optimiser gives user i
Given(i) == int(coupon_opt[i + 1])

\* C1: whenever the solver returns Optimal, every user has exactly one
\* candidate coupon whose variable is 1, all the others are 0, and that
\* coupon is the one written to coupon_opt.
C1_OneCouponPerUser ==
  Solved =>
    \A i \in Users :
      /\ \A j \in Range(coupons_per_user[i]) : x[<<i, j>>].varValue \in {0, 1}
      /\ Cardinality(Chosen(i)) = 1
      /\ ~IsNaN(coupon_opt[i + 1])
      /\ Chosen(i) = {Given(i)}
      /\ Given(i) \in Range(coupons)

\* an optimal run with three users who do not all get the same coupon
C1_Witness ==
  /\ Solved
  /\ Len(set_users) = 3
  /\ \E i, k \in Users : Chosen(i) # Chosen(k)

\* C2: whenever the solver returns Optimal, the face values of the coupons
\* given add up to at most b = sum(cltv)/10.
C2_WithinBudget ==
  Solved =>
    /\ b.den = 10 /\ b.num = CltvSum(df)
    /\ 10 * SeqSum([r \in 1..NRows(df) |-> Given(r - 1)]) <= CltvSum(df)

\* an optimal run where the budget binds: giving every user the largest
\* candidate coupon would exceed it
C2_Witness ==
  /\ Solved
  /\ Len(set_users) >= 2
  /\ 10 * Len(set_users) * Max(Range(coupons)) > CltvSum(df)

\* every way to give each user one candidate coupon
Assignments == [Users -> Range(coupons)]
FaceValue(f) == SeqSum([r \in 1..NRows(df) |-> f[r - 1]])
InBudget(f) == 10 * FaceValue(f) <= CltvSum(df)
ExpectedReturn(f) ==
  SeqSum([r \in 1..NRows(df) |->
            Cell(df, r - 1, ProbCol(f[r - 1])) * (Cltv(r - 1) - f[r - 1])])
GivenAssignment == [i \in Users |-> Given(i)]

\* C3: whenever the solver returns Optimal, no assignment of one candidate
\* coupon per user that stays within the budget has a larger expected return
\* than the one returned.  Every assignment is enumerated, for the tables of
\* at most MaxN users.
C3_MaximalReturn ==
  (Solved /\ NRows(df) <= MaxN) =>
    LET best == ExpectedReturn(GivenAssignment)
    IN  \A f \in Assignments : InBudget(f) => ExpectedReturn(f) <= best

\* an optimal run with three users where some other assignment within the
\* budget returns strictly less and some assignment is outside the budget
C3_Witness ==
  /\ Solved
  /\ NRows(df) = 3
  /\ \E f \in Assignments :
       InBudget(f) /\ ExpectedReturn(f) < ExpectedReturn(GivenAssignment)
  /\ \E f \in Assignments : ~InBudget(f)

BauDone == pc \notin {"cell2", "cell3", "cell4"}

\* C4: once the BAU cell has run, every row's coupon_bau is the integer
\* nearest to cltv/10, the even one of the two when cltv/10 ends in .5; it
\* depends on that row's cltv alone.
C4_BauCoupon ==
  BauDone =>
    /\ Len(coupon_bau) = NRows(df)
    /\ \A r \in 1..NRows(df) :
         LET off == 10 * coupon_bau[r] - Cltv(r - 1)
         IN  /\ off \in -5..5
             /\ (off \in {-5, 5} => coupon_bau[r] % 2 = 0)

\* the BAU cell has run on a table holding the two kinds of tie: 35 goes up
\* to 4 and 45 goes down to 4
C4_Witness ==
  /\ BauDone
  /\ \E r, q \in 1..NRows(df) :
       /\ Cltv(r - 1) = 35 /\ coupon_bau[r] = 4
       /\ Cltv(q - 1) = 45 /\ coupon_bau[q] = 4

C6_BauWithinBudget ==
  pc \in {"cell8", "cell9", "cell10", "cell11", "cell12", "cell13", "done"} =>
    10 * SeqSum(coupon_bau) <= b.num

Shipped == df = ShippedCsv

\* C7: on the shipped table the candidate coupons are 4..11, the budget is
\* 75.1, the solve is Optimal, ROI_BAU is 124.88, ROI_OPT is 152.86 and
\* ROI_OPT is between 22% and 23% above ROI_BAU.
C7_ShippedRun ==
  (Shipped /\ pc = "done") =>
    /\ coupons = ShippedCoupons
    /\ NRows(df) = 10
    /\ b = [num |-> 751, den |-> 10]
    /\ Solved
    /\ ROI_BAU = 12488
    /\ ROI_OPT = 15286
    /\ 22 * ratio.den <= 100 * ratio.num
    /\ 100 * ratio.num < 23 * ratio.den

\* the run on the shipped table reaches its end
C7_Witness == Shipped /\ pc = "done" /\ ~call.made

\* the probability columns of a row of the data file
ProbsOf(row) == SubSeq(row, 1, Len(row) - 1)

\* C8: in every row of a generated table the probability of the k-th coupon
\* is k times a strictly positive multiplier, hence strictly increasing with
\* the position k.
C8_IncreasingProbability ==
  \A r \in 1..NRows(csv) :
    LET p == ProbsOf(csv.rows[r])
    IN  /\ \A k \in 1..Len(p) : p[k] = k * p[1] /\ p[1] > 0
        /\ \A k \in 1..(Len(p) - 1) : p[k] < p[k + 1]

\* a generated table of three rows and three coupons with two multipliers
C8_Witness ==
  /\ call.made /\ error = ""
  /\ NRows(csv) = 3
  /\ Len(csv.rows[1]) = 4
  /\ csv.rows[1][1] = 1 /\ csv.rows[2][1] = 2
  /\ csv.rows[2][3] = 6

\* C9: every row of a generated table has an integer cltv v, 30 <= v < 120.
C9_CltvRange ==
  \A r \in 1..NRows(csv) :
    LET v == csv.rows[r][Len(csv.rows[r])]
    IN  v \in Int /\ 30 <= v /\ v < 120

\* a generated table holding both ends of the range
C9_Witness ==
  /\ call.made /\ error = ""
  /\ \E r, q \in 1..NRows(csv) :
       /\ csv.rows[r][Len(csv.rows[r])] = 30
       /\ csv.rows[q][Len(csv.rows[q])] = 119

\* C10: once cell 2 has called create_customers(n, c), the call has returned
\* a table of exactly n rows whose columns are prob_coupon_<v> for the v of
\* c, in the order of c, then cltv, and nothing else.
C10_TableShape ==
  call.made =>
    /\ error # "IndexError"
    /\ NRows(csv) = call.n
    /\ Len(csv.columns) = Len(call.c) + 1
    /\ \A k \in 1..Len(call.c) : csv.columns[k] = ProbCol(call.c[k])
    /\ csv.columns[Len(call.c) + 1] = CltvCol
    /\ \A r \in 1..NRows(csv) : Len(csv.rows[r]) = Len(csv.columns)

===========================================================================
